---- MODULE Spec2Model ----
(***************************************************************************)
(* A model of the DTLS CoAP client of coap-rs (src/src/dtls_client.rs):    *)
(* one session, the caller's thread that drives it, the observe worker     *)
(* threads the session spawns, the termination channels, and the datagram  *)
(* socket the session and its workers share with the server.               *)
(***************************************************************************)
EXTENDS Integers, Sequences, FiniteSets, TLC

\* ------------------------------------------------------------------ bounds
MaxObs   == 2   \* observations (worker threads) spawned in one run
MaxCalls == 4   \* public operations the caller starts in one run
MaxSrv   == 3   \* datagrams the server puts on the socket in one run
MaxInbox == 1   \* datagrams queued on the socket at one time
MaxMid   == 30  \* gen_message_id runs: counters this far from 0 and from u16::MAX

\* --------------------------------------------------------------- constants
DEFAULT_PORT == 5683
U16 == 65536

\* ----------------------------------------------------------------- packets
Types  == {"CON", "NON", "ACK", "RST"}
NoPkt  == [type |-> "none", mid |-> 0, token |-> <<>>, code |-> "none",
           observe |-> <<>>, path |-> "", payload |-> <<>>]

\* Packet::new(): an empty confirmable packet, message-id 0, no token
Packet_new == [type |-> "CON", mid |-> 0, token |-> <<>>, code |-> "Empty",
               observe |-> <<>>, path |-> "", payload |-> <<>>]

\* CoAPRequest::new(): a GET request packet
CoAPRequest_new == [Packet_new EXCEPT !.code = "GET"]

ObserveOption_Register   == 0
ObserveOption_Deregister == 1

\* what the server may put on the socket
SrvPkt(t, m, k, c, pl) ==
    [type |-> t, mid |-> m, token |-> k, code |-> c,
     observe |-> <<>>, path |-> "", payload |-> pl]

ServerPackets ==
    { SrvPkt("CON", 1, <<7>>, "Content", <<1>>),
      SrvPkt("NON", 2, <<8>>, "NotFound", <<2>>) }

\* a datagram on the socket: a packet, bytes that do not decode, or a
\* record the DTLS layer rejects
Datagrams ==
    { [kind |-> "pkt", pkt |-> p] : p \in ServerPackets }
      \cup { [kind |-> "garbage", pkt |-> NoPkt],
             [kind |-> "badrecord", pkt |-> NoPkt] }

Paths == {"/temp", "/hum"}

\* ---------------------------------------------------------- pure functions
\* gen_message_id: increment, then return (u16)
gen_message_id(message_id) == (message_id + 1) % U16

\* outcome of ssl_read on a socket whose queue is q
\*   [ok, cause, dgram]; the caller guards the blocking case
ssl_read(q) ==
    IF q = <<>> THEN [ok |-> FALSE, cause |-> "timeout", dgram |-> [kind |-> "none", pkt |-> NoPkt]]
    ELSE IF Head(q).kind = "badrecord"
         THEN [ok |-> FALSE, cause |-> "ssl", dgram |-> Head(q)]
         ELSE [ok |-> TRUE, cause |-> "data", dgram |-> Head(q)]

\* Packet::from_bytes on what ssl_read returned
Packet_from_bytes(d) ==
    IF d.kind = "pkt" THEN [ok |-> TRUE, pkt |-> d.pkt]
                      ELSE [ok |-> FALSE, pkt |-> NoPkt]

\* receive_from_socket: every read error and every decode error becomes
\* InvalidInput
receive_from_socket(rd) ==
    IF ~rd.ok THEN [kind |-> "InvalidInput", pkt |-> NoPkt]
    ELSE IF Packet_from_bytes(rd.dgram).ok
         THEN [kind |-> "Ok", pkt |-> Packet_from_bytes(rd.dgram).pkt]
         ELSE [kind |-> "InvalidInput", pkt |-> NoPkt]

\* send_with_socket: enc is the result of to_bytes, wr the result of
\* ssl_write ("full", "partial" or "Err"); ssl_write's error is unwrapped
EncResults == {"Ok", "Err"}
WriteResults == {"full", "partial", "Err"}
send_with_socket(enc, wr) ==
    IF enc = "Err" THEN "InvalidInput"
    ELSE IF wr = "Err" THEN "panic"
    ELSE IF wr = "full" THEN "Ok"
    ELSE "Other"

\* -------------------------------------------------------------- URL parser
\* A URL is a sequence of one-character strings.
Letters == {"c", "o", "a", "p", "h", "m", "e", "b", "R", "x"}
Digits  == {"0", "1", "2", "3", "4", "5", "6", "7", "8", "9"}
HexChars == Digits \cup {"a", "b", "c", "e"}

DigitVal(c) ==
    CASE c = "0" -> 0 [] c = "1" -> 1 [] c = "2" -> 2 [] c = "3" -> 3
      [] c = "4" -> 4 [] c = "5" -> 5 [] c = "6" -> 6 [] c = "7" -> 7
      [] c = "8" -> 8 [] c = "9" -> 9

Drop(s, n) == SubSeq(s, n + 1, Len(s))
Take(s, n) == SubSeq(s, 1, n)
StartsWith(s, pre) == Len(s) >= Len(pre) /\ Take(s, Len(pre)) = pre

\* url crate, scheme state: an ASCII letter, then letters, digits, + - .
\* up to the first ':'; 0 when the input has no scheme
RECURSIVE SchemeEnd(_, _)
SchemeEnd(s, i) ==
    IF i > Len(s) THEN 0
    ELSE IF s[i] = ":" THEN (IF i = 1 THEN 0 ELSE i)
    ELSE IF s[i] \in Letters \/ (i > 1 /\ s[i] \in Digits \cup {".", "+", "-"})
         THEN SchemeEnd(s, i + 1)
         ELSE 0

\* url crate, Parser::parse_host: the host runs to the first ':' outside
\* square brackets or to the first '/', '?' or '#'
RECURSIVE HostLen(_, _, _)
HostLen(s, i, inside) ==
    IF i > Len(s) THEN i - 1
    ELSE IF s[i] = ":" /\ ~inside THEN i - 1
    ELSE IF s[i] \in {"/", "?", "#"} THEN i - 1
    ELSE IF s[i] = "[" THEN HostLen(s, i + 1, TRUE)
    ELSE IF s[i] = "]" THEN HostLen(s, i + 1, FALSE)
    ELSE HostLen(s, i + 1, inside)

ColonCount(s) == Cardinality({i \in 1..Len(s) : s[i] = ":"})

\* url crate, Host::parse_opaque: a bracketed host must close its bracket
\* and hold an IPv6 address; anything else is kept as it is written
Ipv6Ok(inner) ==
    /\ inner # <<>>
    /\ \A i \in 1..Len(inner) : inner[i] \in HexChars \cup {":"}
    /\ ColonCount(inner) >= 2

HostOk(h) ==
    IF h # <<>> /\ h[1] = "["
    THEN h[Len(h)] = "]" /\ Ipv6Ok(SubSeq(h, 2, Len(h) - 1))
    ELSE \A i \in 1..Len(h) : h[i] \notin {"[", "]", " "}

\* url crate, Parser::parse_port: decimal digits up to '/', '?' or '#';
\* -1 on a character that is no digit or a value above u16::MAX,
\* -2 (None) when there is no digit
RECURSIVE PortVal(_, _, _, _)
PortVal(s, i, acc, any) ==
    IF i > Len(s) \/ s[i] \in {"/", "?", "#"}
    THEN (IF any THEN acc ELSE -2)
    ELSE IF s[i] \notin Digits THEN -1
    ELSE IF acc * 10 + DigitVal(s[i]) > U16 - 1 THEN -1
    ELSE PortVal(s, i + 1, acc * 10 + DigitVal(s[i]), TRUE)

RECURSIVE PortLen(_, _)
PortLen(s, i) ==
    IF i > Len(s) \/ s[i] \notin Digits THEN i - 1 ELSE PortLen(s, i + 1)

NoUrl == [ok |-> FALSE, hasHost |-> FALSE, host |-> <<>>, port |-> -2, path |-> <<>>]

\* Url::parse, with host_str(), port() and path() of the result
Url_parse(url) ==
    LET se == SchemeEnd(url, 1) IN
    IF se = 0 THEN NoUrl
    ELSE LET rest == Drop(url, se) IN
      IF ~StartsWith(rest, <<"/", "/">>)
      THEN [ok |-> TRUE, hasHost |-> FALSE, host |-> <<>>, port |-> -2, path |-> rest]
      ELSE LET auth == Drop(rest, 2)
               hl   == HostLen(auth, 1, FALSE)
               h    == Take(auth, hl)
               aft  == Drop(auth, hl)
               hasPort == aft # <<>> /\ aft[1] = ":"
               pstr == IF hasPort THEN Drop(aft, 1) ELSE aft
               pv   == IF hasPort THEN PortVal(pstr, 1, 0, FALSE) ELSE -2
               pl   == IF hasPort THEN PortLen(pstr, 1) ELSE 0
           IN  IF ~HostOk(h) THEN NoUrl
               ELSE IF h = <<>> /\ hasPort THEN NoUrl
               ELSE IF pv = -1 THEN NoUrl
               ELSE [ok |-> TRUE, hasHost |-> TRUE, host |-> h, port |-> pv,
                     path |-> Drop(pstr, pl)]

\* Regex ^\[(.*?)]$ replaced by $1
StripBrackets_Keep(h) == h

StripBrackets(h) ==
    IF Len(h) >= 2 /\ h[1] = "[" /\ h[Len(h)] = "]"
    THEN SubSeq(h, 2, Len(h) - 1)
    ELSE h

UrlErr == [kind |-> "InvalidInput", host |-> <<>>, port |-> 0, path |-> <<>>]

parse_coap_url(url) ==
    LET url_params == Url_parse(url) IN
    IF ~url_params.ok THEN UrlErr
    ELSE IF ~url_params.hasHost \/ url_params.host = <<>> THEN UrlErr
    ELSE [kind |-> "Ok",
          host |-> StripBrackets(url_params.host),
          port |-> IF url_params.port = -2 THEN DEFAULT_PORT ELSE url_params.port,
          path |-> url_params.path]

\* the URLs the parser is run on: scheme, host, port and path parts
UrlSchemes == { <<>>, <<"c", "o", "a", "p", ":">>,
                <<"c", "o", "a", "p", ":", "/", "/">> }
UrlHosts == { <<>>, <<"1", "2", "7", ".", "0", ".", "0", ".", "1">>,
              <<"c", "o", "a", "p", ".", "m", "e">>,
              <<"[", ":", ":", "1", "]">>,
              <<"[", "b", "b", ":", ":", "7", "4", "]">>,
              <<"[", ":", ":", "1">>, <<"[", "]">> }
UrlPorts == { <<>>, <<":">>, <<":", "0">>, <<":", "5", "6", "8", "3">>,
              <<":", "6", "5", "5", "3", "5">>, <<":", "6", "5", "5", "3", "6">>,
              <<":", "8", "x">>, <<":", "9", "9", "9", "9", "9", "9">> }
UrlPaths == { <<>>, <<"/">>, <<"/", "R">> }
Urls == { s \o h \o p \o q : s \in UrlSchemes, h \in UrlHosts,
                             p \in UrlPorts, q \in UrlPaths }

\* ------------------------------------------------------------------- state
VARIABLES
    sess,            \* "none", "live" or "dropped": the DTLSCoAPClient value
    observe_sender,  \* Option<Sender>: 0 (None) or the observation it ends
    observe_thread,  \* Option<JoinHandle>: 0 (None) or the observation
    read_timeout,    \* SO_RCVTIMEO of the socket: "some" or "none"
    nCtx,            \* DTLS contexts handshaken over the session's socket
    mpc,             \* where the caller's thread stands
    curOp,           \* the public operation the caller runs or ran last
    prevOp,          \* the public operation before it
    callN,           \* public operations started
    ret,             \* what the operation returned, and what its ssl_read met
    panicked,        \* the caller's thread is unwinding
    obsId,           \* observations started by observe
    obsPath,         \* resource_path of the observe call in progress
    wpc,             \* per observation: where its worker stands
    wcur,            \* per observation: the packet the worker read last
    wmid,            \* per observation: message_id of the closure
    wpath,           \* per observation: observe_path of the closure
    term,            \* per observation: Terminate values in the channel
    termAt,          \* per observation: handler calls and acknowledgements when Terminate was sent
    inbox,           \* datagrams queued on the socket
    srvN,            \* datagrams the server has sent
    handlerLog,      \* per observation: packets handed to the handler
    readLog,         \* per observation: packets the worker decoded
    ackLog,          \* per observation: <<notification, acknowledgement>> handed to send_with_socket
    deregLog,        \* per observation: deregister requests handed to send_with_socket
    regLog,          \* per observation: the registration response received
    url,             \* URL parser runs: the input
    parsed,          \* URL parser runs: the result, or NotParsed
    mid_in,          \* gen_message_id runs: *message_id before the call
    mid_out          \* gen_message_id runs: the outcome, or NoMid

vars == << sess, observe_sender, observe_thread, read_timeout, nCtx, mpc,
           curOp, prevOp, callN, ret, panicked, obsId, obsPath, wpc, wcur,
           wmid, wpath, term, termAt, inbox, srvN, handlerLog, readLog,
           ackLog, deregLog, regLog, url, parsed, mid_in, mid_out >>

sessVars   == << sess, observe_sender, observe_thread, read_timeout, nCtx >>
workerVars == << wpc, wcur, wmid, wpath >>
logVars    == << handlerLog, readLog, ackLog, deregLog, regLog >>
callVars   == << curOp, prevOp, callN >>
pureVars   == << url, parsed, mid_in, mid_out >>

Obs == 1..MaxObs
NotParsed == [kind |-> "none", host |-> <<>>, port |-> 0, path |-> <<>>]
NotSent == [handler |-> -1, ack |-> -1]
NoMid == [kind |-> "none", value |-> 0, message_id |-> 0]
NoRet == [op |-> "none", kind |-> "none", cause |-> "none"]
Pending(op) == [op |-> op, kind |-> "pending", cause |-> "none"]

Init ==
    /\ sess = "none"
    /\ observe_sender = 0
    /\ observe_thread = 0
    /\ read_timeout = "some"
    /\ nCtx = 0
    /\ mpc = "idle"
    /\ curOp = "none"
    /\ prevOp = "none"
    /\ callN = 0
    /\ ret = NoRet
    /\ panicked = FALSE
    /\ obsId = 0
    /\ obsPath = ""
    /\ wpc = [o \in Obs |-> "unborn"]
    /\ wcur = [o \in Obs |-> NoPkt]
    /\ wmid = [o \in Obs |-> 0]
    /\ wpath = [o \in Obs |-> ""]
    /\ term = [o \in Obs |-> 0]
    /\ termAt = [o \in Obs |-> NotSent]
    /\ inbox = <<>>
    /\ srvN = 0
    /\ handlerLog = [o \in Obs |-> <<>>]
    /\ readLog = [o \in Obs |-> <<>>]
    /\ ackLog = [o \in Obs |-> <<>>]
    /\ deregLog = [o \in Obs |-> <<>>]
    /\ regLog = [o \in Obs |-> NoPkt]
    /\ url = <<>>
    /\ parsed = NotParsed
    /\ mid_in = 0
    /\ mid_out = NoMid

\* a worker's thread has ended (its Receiver is dropped with it)
Ended(o) == wpc[o] \in {"done", "panicked"}
Running(o) == wpc[o] \notin {"unborn", "done", "panicked"}

\* a panic while the thread is already unwinding aborts the process
ProcessAlive == mpc # "aborted"

\* the caller may start a public operation on the session
CanCall == /\ mpc = "idle" /\ ~panicked /\ callN < MaxCalls

\* a read on the socket returns: data is queued, or the timer can elapse
CanRead == inbox # <<>> \/ read_timeout = "some"

\* the caller starts a public operation
Call(op) ==
    /\ curOp' = op
    /\ prevOp' = curOp
    /\ callN' = callN + 1

\* a public operation ends: with a value, or with a panic
FinishRead(op, kind, cause) ==
    /\ ret' = [op |-> op, kind |-> kind, cause |-> cause]
    /\ mpc' = IF kind = "panic" /\ panicked THEN "aborted" ELSE "idle"
    /\ panicked' = (panicked \/ kind = "panic")

Finish(op, kind) == FinishRead(op, kind, "none")

\* ------------------------------------------------- session: construction
ResolveResults == {"Err", "empty", "ok"}
OkErr == {"Ok", "Err"}

\* new_with_specific_source: resolve, bind and connect the socket, build the
\* connector, handshake (unwrapped)
new_with_specific_source(resolve, conn, ctor, hs) ==
    IF resolve = "Err" THEN "Io"
    ELSE IF resolve = "empty" THEN "Other"
    ELSE IF conn = "Err" THEN "Io"
    ELSE IF ctor = "Err" THEN "Other"
    ELSE IF hs = "Err" THEN "panic"
    ELSE "Ok"

\* new: resolve, pick the wildcard of the first address's family
new(resolve, conn, ctor, hs) ==
    IF resolve = "Err" THEN "Io"
    ELSE IF resolve = "empty" THEN "Other"
    ELSE new_with_specific_source(resolve, conn, ctor, hs)

New(resolve, conn, ctor, hs) ==
    /\ sess = "none"
    /\ CanCall
    /\ LET k == new(resolve, conn, ctor, hs) IN
         /\ Finish("new", k)
         /\ sess' = IF k = "Ok" THEN "live" ELSE "none"
         /\ nCtx' = IF k = "Ok" THEN 1 ELSE 0
    /\ Call("new")
    /\ read_timeout' = "some"
    /\ inbox' = <<>>
    /\ UNCHANGED << observe_sender, observe_thread, obsId, obsPath,
                    workerVars, term, termAt, srvN, logVars, pureVars >>

\* ------------------------------------------- session: send, receive, timer
Send(enc, wr) ==
    /\ sess = "live"
    /\ CanCall
    /\ Finish("send", send_with_socket(enc, wr))
    /\ Call("send")
    /\ UNCHANGED << sessVars, obsId, obsPath, workerVars, term, termAt,
                    inbox, srvN, logVars, pureVars >>

Receive ==
    /\ sess = "live"
    /\ CanCall
    /\ CanRead
    /\ LET rd == ssl_read(inbox) IN
         /\ FinishRead("receive", receive_from_socket(rd).kind, rd.cause)
         /\ inbox' = IF inbox = <<>> THEN inbox ELSE Tail(inbox)
    /\ Call("receive")
    /\ UNCHANGED << sessVars, obsId, obsPath, workerVars, term, termAt, srvN,
                    logVars, pureVars >>

SetReceiveTimeout(dur) ==
    /\ sess = "live"
    /\ CanCall
    /\ read_timeout' = dur
    /\ Finish("set_receive_timeout", "Ok")
    /\ Call("set_receive_timeout")
    /\ UNCHANGED << sess, observe_sender, observe_thread, nCtx, obsId, obsPath, workerVars, term, termAt, inbox, srvN, logVars,
                    pureVars >>

\* ---------------------------------------------------------- get_with_timeout
GetUrls == { <<"c", "o", "a", "p", ":", "/", "/", "h", "/", "R">>,
             <<"h", "/", "R">> }

GetCall(u) ==
    /\ sess = "none"
    /\ CanCall
    /\ IF parse_coap_url(u).kind = "Ok"
       THEN /\ mpc' = "get_new"
            /\ ret' = Pending("get")
            /\ UNCHANGED panicked
       ELSE Finish("get", parse_coap_url(u).kind)
    /\ Call("get")
    /\ UNCHANGED << sessVars, obsId, obsPath, workerVars, term, termAt,
                    inbox, srvN, logVars, pureVars >>

GetNew(resolve, conn, ctor, hs) ==
    /\ mpc = "get_new"
    /\ LET k == new(resolve, conn, ctor, hs) IN
         IF k = "Ok"
         THEN /\ mpc' = "get_send"
              /\ sess' = "live"
              /\ nCtx' = 1
              /\ UNCHANGED << ret, panicked >>
         ELSE /\ Finish("get", k)
              /\ UNCHANGED << sess, nCtx >>
    /\ read_timeout' = "some"
    /\ inbox' = <<>>
    /\ UNCHANGED << observe_sender, observe_thread, callVars, obsId, obsPath, workerVars, term, termAt, srvN, logVars, pureVars >>

\* the client is a local of get_with_timeout: it is dropped when the
\* function returns or unwinds
GetSend(enc, wr) ==
    /\ mpc = "get_send"
    /\ LET k == send_with_socket(enc, wr) IN
         IF k = "Ok"
         THEN /\ mpc' = "get_recv"
              /\ read_timeout' = "some"
              /\ UNCHANGED << ret, panicked, sess, inbox >>
         ELSE /\ Finish("get", k)
              /\ sess' = "none"
              /\ inbox' = <<>>
              /\ UNCHANGED read_timeout
    /\ UNCHANGED << observe_sender, observe_thread, nCtx, callVars,
                    obsId, obsPath, workerVars, term, termAt, srvN, logVars,
                    pureVars >>

GetReceive ==
    /\ mpc = "get_recv"
    /\ CanRead
    /\ LET rd == ssl_read(inbox) IN
         /\ FinishRead("get", receive_from_socket(rd).kind, rd.cause)
    /\ sess' = "none"
    /\ inbox' = <<>>
    /\ UNCHANGED << observe_sender, observe_thread, read_timeout, nCtx, callVars, obsId, obsPath, workerVars, term, termAt, srvN, logVars,
                    pureVars >>

\* ------------------------------------------------------------------ observe
\* the handler is called with one packet
InvokeHandler_Skip(log, p) == log

InvokeHandler(log, p) == Append(log, p)

\* *response.get_status() != Status::Content
StatusIsContent_Any(response) == TRUE

StatusIsContent(response) == response.code = "Content"

RegisterPacket(path, mid) ==
    [CoAPRequest_new EXCEPT !.observe = << ObserveOption_Register >>,
                            !.mid = mid, !.path = path]

DeregisterPacket(path, mid) ==
    [CoAPRequest_new EXCEPT !.mid = mid,
                            !.observe = << ObserveOption_Deregister >>,
                            !.path = path]

\* the code only copies resource_path into the two requests, so which of
\* the paths comes first makes no difference: the first observe of a run
\* takes the first, later ones the same path or another
FirstPath == "/temp"

\* observe, up to and including the send of the registration
ObserveCall(path, enc, wr) ==
    /\ sess = "live"
    /\ CanCall
    /\ obsId < MaxObs
    /\ obsId = 0 => path = FirstPath
    /\ obsId' = obsId + 1
    /\ wmid' = [wmid EXCEPT ![obsId + 1] = gen_message_id(0)]
    /\ LET k == send_with_socket(enc, wr) IN
         IF k = "Ok"
         THEN /\ mpc' = "obs_recv"
              /\ read_timeout' = "some"
              /\ obsPath' = path
              /\ ret' = Pending("observe")
              /\ UNCHANGED panicked
         ELSE /\ Finish("observe", k)
              /\ UNCHANGED << read_timeout, obsPath >>
    /\ Call("observe")
    /\ UNCHANGED << sess, observe_sender, observe_thread, nCtx, wpc, wcur, wpath, term, termAt, inbox, srvN, logVars, pureVars >>

\* observe: the receive of the registration response, the status check and
\* the first call of the handler
ObserveReceive ==
    /\ mpc = "obs_recv"
    /\ CanRead
    /\ LET rd == ssl_read(inbox)
           rr == receive_from_socket(rd)
       IN /\ inbox' = IF inbox = <<>> THEN inbox ELSE Tail(inbox)
          /\ IF rr.kind # "Ok"
             THEN /\ FinishRead("observe", rr.kind, rd.cause)
                  /\ obsPath' = ""
                  /\ UNCHANGED << handlerLog, regLog >>
             ELSE IF ~StatusIsContent(rr.pkt)
             THEN /\ FinishRead("observe", "NotFound", rd.cause)
                  /\ obsPath' = ""
                  /\ UNCHANGED << handlerLog, regLog >>
             ELSE /\ regLog' = [regLog EXCEPT ![obsId] = rr.pkt]
                  /\ handlerLog' = [handlerLog EXCEPT
                                      ![obsId] = InvokeHandler(@, rr.pkt)]
                  /\ mpc' = "obs_handler"
                  /\ UNCHANGED << ret, panicked, obsPath >>
    /\ UNCHANGED << sessVars, callVars, obsId, workerVars, term, termAt,
                    srvN, readLog, ackLog, deregLog, pureVars >>

\* observe, after the handler returned: try_clone, get_ssl_connector()?,
\* connect(..).unwrap()
observe_tail(clone, ctor, hs) ==
    IF clone = "Err" \/ ctor = "Err" THEN "Other"
    ELSE IF hs = "Err" THEN "panic"
    ELSE "Ok"

\* thread::spawn and the two assignments come after all of these
SpawnsWorker_BeforeConnector(clone, ctor, hs) == clone = "Ok"

SpawnsWorker(clone, ctor, hs) == observe_tail(clone, ctor, hs) = "Ok"

\* observe, after the handler returned: clone the socket, build the second
\* connector, handshake (unwrapped), spawn the worker, store the handles
ObserveSpawn(clone, ctor, hs) ==
    /\ mpc = "obs_handler"
    /\ Finish("observe", observe_tail(clone, ctor, hs))
    /\ IF SpawnsWorker(clone, ctor, hs)
       THEN /\ nCtx' = nCtx + 1
            /\ wpc' = [wpc EXCEPT ![obsId] = "read"]
            /\ wpath' = [wpath EXCEPT ![obsId] = obsPath]
            /\ observe_sender' = obsId
            /\ observe_thread' = obsId
       ELSE UNCHANGED << observe_sender, observe_thread, nCtx, wpc, wpath >>
    /\ obsPath' = ""
    /\ UNCHANGED << sess, read_timeout, callVars, obsId,
                    wcur, wmid, term, termAt, inbox, srvN, logVars, pureVars >>

\* ---------------------------------------------------------- unobserve, drop
\* unobserve up to the join; op is "unobserve", or "drop" when Drop runs it.
\* observe_sender.take() is None: nothing to do
UnobserveNone_Unwrap(op) ==
    /\ Finish(op, "panic")
    /\ sess' = IF op = "drop" THEN "dropped" ELSE sess
    /\ UNCHANGED << observe_sender, observe_thread, term, termAt >>

UnobserveNone(op) ==
    /\ Finish(op, "Ok")
    /\ sess' = IF op = "drop" THEN "dropped" ELSE sess
    /\ UNCHANGED << observe_sender, observe_thread, term, termAt >>

\* observe_sender.take() is Some(sender): send Terminate (unwrapped: the
\* send fails when the worker's Receiver is gone), then go on to the join
UnobserveSome(op) ==
    /\ observe_sender' = 0
    /\ IF Ended(observe_sender)
       THEN /\ Finish(op, "panic")
            /\ sess' = IF op = "drop" THEN "dropped" ELSE sess
            /\ UNCHANGED << observe_thread, term, termAt >>
       ELSE /\ term' = [term EXCEPT ![observe_sender] = @ + 1]
            /\ termAt' = [termAt EXCEPT ![observe_sender] =
                            [handler |-> Len(handlerLog[observe_sender]),
                             ack |-> Len(ackLog[observe_sender])]]
            /\ mpc' = "unobs_join"
            /\ ret' = Pending(op)
            /\ UNCHANGED << panicked, sess, observe_thread >>

UnobserveBody(op) ==
    IF observe_sender = 0 THEN UnobserveNone(op) ELSE UnobserveSome(op)

Unobserve ==
    /\ sess = "live"
    /\ CanCall
    /\ UnobserveBody("unobserve")
    /\ Call("unobserve")
    /\ UNCHANGED << read_timeout, nCtx, obsId, obsPath, workerVars,
                    inbox, srvN, logVars, pureVars >>

\* Drop for DTLSCoAPClient: by the owner, or by unwinding after a panic
DropSession ==
    /\ sess = "live"
    /\ mpc = "idle"
    /\ panicked \/ callN < MaxCalls
    /\ UnobserveBody("drop")
    /\ Call("drop")
    /\ UNCHANGED << read_timeout, nCtx, obsId, obsPath, workerVars,
                    inbox, srvN, logVars, pureVars >>

\* what self.observe_thread.take() leaves in the field
observe_thread_take_Peek(handle) == handle

observe_thread_take(handle) == 0

\* self.observe_thread.take().map(|g| g.join().unwrap())
UnobserveJoin ==
    /\ mpc = "unobs_join"
    /\ observe_thread # 0 => Ended(observe_thread)
    /\ observe_thread' = observe_thread_take(observe_thread)
    /\ Finish(curOp, IF observe_thread # 0 /\ wpc[observe_thread] = "panicked"
                     THEN "panic" ELSE "Ok")
    /\ sess' = IF curOp = "drop" THEN "dropped" ELSE sess
    /\ UNCHANGED << observe_sender, read_timeout, nCtx, callVars,
                    obsId, obsPath, workerVars, term, termAt, inbox, srvN,
                    logVars, pureVars >>

\* ----------------------------------------------------------- observe worker
\* CoAPRequest::from_packet: the packet, and the response envelope derived
\* from it when its type asks for an acknowledgement; the envelope carries
\* the type, message-id and token of the packet
RequiresAck(type) == type = "CON"

CoAPRequest_from_packet(packet) ==
    [message  |-> packet,
     response |-> IF RequiresAck(packet.type)
                  THEN [some |-> TRUE,
                        message |-> [Packet_new EXCEPT !.type = packet.type,
                                                       !.mid = packet.mid,
                                                       !.token = packet.token,
                                                       !.code = "Content"]]
                  ELSE [some |-> FALSE, message |-> NoPkt]]

\* the acknowledgement built from the response envelope
MakeAck_NoMessageId(response) ==
    [Packet_new EXCEPT !.type = response.message.type,
                       !.token = response.message.token]

MakeAck(response) ==
    [Packet_new EXCEPT !.type = response.message.type,
                       !.mid = response.message.mid,
                       !.token = response.message.token]

\* the socket is open while the session or a worker holds a handle of it
SocketOpen == sess = "live" \/ \E o \in Obs : Running(o)

\* loop head: receive_from_socket, and on a packet the call of the handler
WorkerRead(o) ==
    /\ ProcessAlive
    /\ wpc[o] = "read"
    /\ CanRead
    /\ LET rr == receive_from_socket(ssl_read(inbox)) IN
         IF rr.kind = "Ok"
         THEN /\ wcur' = [wcur EXCEPT ![o] = rr.pkt]
              /\ readLog' = [readLog EXCEPT ![o] = Append(@, rr.pkt)]
              /\ handlerLog' = [handlerLog EXCEPT
                                  ![o] = InvokeHandler(@, rr.pkt)]
              /\ wpc' = [wpc EXCEPT ![o] = "handler"]
         ELSE /\ wpc' = [wpc EXCEPT ![o] = "poll"]
              /\ UNCHANGED << wcur, readLog, handlerLog >>
    /\ inbox' = IF inbox = <<>> THEN inbox ELSE Tail(inbox)
    /\ UNCHANGED << sessVars, mpc, callVars, ret, panicked, obsId, obsPath, wmid, wpath, term, termAt, srvN, ackLog,
                    deregLog, regLog, pureVars >>

\* if let Some(response) = receive_packet.response
AckDue_Always(receive_packet) == TRUE

AckDue(receive_packet) == receive_packet.response.some

\* the handler returns; an acknowledgement is due when there is an envelope
WorkerHandlerReturn(o) ==
    /\ ProcessAlive
    /\ wpc[o] = "handler"
    /\ IF AckDue(CoAPRequest_from_packet(wcur[o]))
       THEN /\ wpc' = [wpc EXCEPT ![o] = "ack"]
            /\ UNCHANGED wcur
       ELSE /\ wpc' = [wpc EXCEPT ![o] = "poll"]
            /\ wcur' = [wcur EXCEPT ![o] = NoPkt]
    /\ UNCHANGED << sessVars, mpc, callVars, ret, panicked, obsId, obsPath, wmid, wpath, term, termAt, inbox, srvN,
                    logVars, pureVars >>

\* the acknowledgement is handed to send_with_socket with the worker's
\* stream; a send error is logged, a write error panics inside
\* send_with_socket
WorkerAck(o, wr) ==
    /\ ProcessAlive
    /\ wpc[o] = "ack"
    /\ LET ack == MakeAck(CoAPRequest_from_packet(wcur[o]).response)
           k   == send_with_socket("Ok", wr)
       IN /\ wpc' = [wpc EXCEPT ![o] = IF k = "panic" THEN "panicked" ELSE "poll"]
          /\ ackLog' = [ackLog EXCEPT ![o] = Append(@, << wcur[o], ack >>)]
    /\ wcur' = [wcur EXCEPT ![o] = NoPkt]
    /\ UNCHANGED << sessVars, mpc, callVars, ret, panicked, obsId, obsPath, wmid, wpath, term, termAt, inbox, srvN,
                    handlerLog, readLog, deregLog, regLog, pureVars >>

\* observe_receiver.try_recv() on a channel that holds n messages: the
\* arm `_ => continue` takes Empty and Disconnected alike
try_recv_Empty(n) == "Empty"

try_recv(n) == IF n > 0 THEN "Terminate" ELSE "Empty"

\* the termination check at the end of the loop body
WorkerPoll(o) ==
    /\ ProcessAlive
    /\ wpc[o] = "poll"
    /\ IF try_recv(term[o]) = "Terminate"
       THEN /\ term' = [term EXCEPT ![o] = @ - 1]
            /\ wpc' = [wpc EXCEPT ![o] = "dereg"]
       ELSE /\ wpc' = [wpc EXCEPT ![o] = "read"]
            /\ UNCHANGED term
    /\ UNCHANGED << sessVars, mpc, callVars, ret, panicked, obsId, obsPath, wcur, wmid, wpath, termAt, inbox, srvN, logVars,
                    pureVars >>

\* Terminate: the deregister request is sent, its result unwrapped
WorkerDeregister(o, wr) ==
    /\ ProcessAlive
    /\ wpc[o] = "dereg"
    /\ wmid' = [wmid EXCEPT ![o] = gen_message_id(@)]
    /\ LET k == send_with_socket("Ok", wr) IN
         /\ wpc' = [wpc EXCEPT ![o] = IF k = "Ok" THEN "drain" ELSE "panicked"]
         /\ deregLog' = [deregLog EXCEPT ![o] =
                           Append(@, [pkt |-> DeregisterPacket(wpath[o], wmid'[o]),
                                      result |-> k])]
    /\ UNCHANGED << sessVars, mpc, callVars, ret, panicked, obsId, obsPath, wcur, wpath, term, termAt, inbox, srvN,
                    handlerLog, readLog, ackLog, regLog, pureVars >>

\* one packet is read to drain the acknowledgement, its result unwrapped
WorkerDrain(o) ==
    /\ ProcessAlive
    /\ wpc[o] = "drain"
    /\ CanRead
    /\ wpc' = [wpc EXCEPT ![o] =
                 IF receive_from_socket(ssl_read(inbox)).kind = "Ok"
                 THEN "done" ELSE "panicked"]
    /\ inbox' = IF inbox = <<>> THEN inbox ELSE Tail(inbox)
    /\ UNCHANGED << sessVars, mpc, callVars, ret, panicked, obsId, obsPath, wcur, wmid, wpath, term, termAt, srvN, logVars,
                    pureVars >>

\* ------------------------------------------------------------------- server
\* the DTLS contexts the peer can send a packet to: the session's own, and
\* the one each observe call handshakes over the cloned socket; a datagram
\* that holds no packet is meant for none of them
Contexts == {"session", "worker"}

\* the peer sends a datagram; the contexts share the one connected UDP
\* socket, so the datagram joins the one receive queue
ServerSend(d, to) ==
    /\ ProcessAlive
    /\ SocketOpen
    /\ srvN < MaxSrv
    /\ Len(inbox) < MaxInbox
    /\ (d.kind = "pkt") = (to \in Contexts)
    /\ to = "worker" => \E o \in Obs : wpc[o] # "unborn"
    /\ inbox' = Append(inbox, [kind |-> d.kind, pkt |-> d.pkt, to |-> to])
    /\ srvN' = srvN + 1
    /\ UNCHANGED << sessVars, mpc, callVars, ret, panicked, obsId, obsPath, workerVars, term, termAt, logVars, pureVars >>

\* ------------------------------------------------------------ specification
Next ==
    \/ \E r \in ResolveResults, c \in OkErr, t \in OkErr, h \in OkErr :
          New(r, c, t, h)
    \/ \E e \in EncResults, w \in WriteResults : Send(e, w)
    \/ Receive
    \/ \E d \in {"some", "none"} : SetReceiveTimeout(d)
    \/ \E u \in GetUrls : GetCall(u)
    \/ \E r \in ResolveResults, c \in OkErr, t \in OkErr, h \in OkErr :
          GetNew(r, c, t, h)
    \/ \E e \in EncResults, w \in WriteResults : GetSend(e, w)
    \/ GetReceive
    \/ \E p \in Paths, e \in EncResults, w \in WriteResults :
          ObserveCall(p, e, w)
    \/ ObserveReceive
    \/ \E c \in OkErr, t \in OkErr, h \in OkErr : ObserveSpawn(c, t, h)
    \/ Unobserve
    \/ DropSession
    \/ UnobserveJoin
    \/ \E o \in Obs : WorkerRead(o)
    \/ \E o \in Obs : WorkerHandlerReturn(o)
    \/ \E o \in Obs, w \in WriteResults : WorkerAck(o, w)
    \/ \E o \in Obs : WorkerPoll(o)
    \/ \E o \in Obs, w \in WriteResults : WorkerDeregister(o, w)
    \/ \E o \in Obs : WorkerDrain(o)
    \/ \E d \in Datagrams, c \in Contexts \cup {"none"} : ServerSend(d, c)

Spec == Init /\ [][Next]_vars

\* ---------------------------------------------- specification: URL parser
mainVars == << sess, observe_sender, observe_thread, read_timeout, nCtx, mpc,
               curOp, prevOp, callN, ret, panicked, obsId, obsPath, wpc,
               wcur, wmid, wpath, term, termAt, inbox, srvN, handlerLog,
               readLog, ackLog, deregLog, regLog >>

InitUrl ==
    /\ sess = "none" /\ observe_sender = 0 /\ observe_thread = 0
    /\ read_timeout = "some" /\ nCtx = 0 /\ mpc = "idle" /\ curOp = "none"
    /\ prevOp = "none" /\ callN = 0 /\ ret = NoRet /\ panicked = FALSE
    /\ obsId = 0 /\ obsPath = ""
    /\ wpc = [o \in Obs |-> "unborn"] /\ wcur = [o \in Obs |-> NoPkt]
    /\ wmid = [o \in Obs |-> 0] /\ wpath = [o \in Obs |-> ""]
    /\ term = [o \in Obs |-> 0] /\ termAt = [o \in Obs |-> NotSent]
    /\ inbox = <<>> /\ srvN = 0
    /\ handlerLog = [o \in Obs |-> <<>>] /\ readLog = [o \in Obs |-> <<>>]
    /\ ackLog = [o \in Obs |-> <<>>] /\ deregLog = [o \in Obs |-> <<>>]
    /\ regLog = [o \in Obs |-> NoPkt]
    /\ url \in Urls
    /\ parsed = NotParsed
    /\ mid_in = 0
    /\ mid_out = NoMid

ParseUrl ==
    /\ parsed = NotParsed
    /\ parsed' = parse_coap_url(url)
    /\ UNCHANGED << url, mid_in, mid_out, mainVars >>

NextUrl == ParseUrl

SpecUrl == InitUrl /\ [][NextUrl]_vars

\* ------------------------------------------ specification: gen_message_id
\* the counters gen_message_id is run on: the low end and the high end of u16
MidInputs == (0..MaxMid) \cup ((U16 - 1 - MaxMid)..(U16 - 1))

\* (*message_id) += 1 leaves the range of u16
Overflows(message_id) == message_id + 1 > U16 - 1

InitMid ==
    /\ sess = "none" /\ observe_sender = 0 /\ observe_thread = 0
    /\ read_timeout = "some" /\ nCtx = 0 /\ mpc = "idle" /\ curOp = "none"
    /\ prevOp = "none" /\ callN = 0 /\ ret = NoRet /\ panicked = FALSE
    /\ obsId = 0 /\ obsPath = ""
    /\ wpc = [o \in Obs |-> "unborn"] /\ wcur = [o \in Obs |-> NoPkt]
    /\ wmid = [o \in Obs |-> 0] /\ wpath = [o \in Obs |-> ""]
    /\ term = [o \in Obs |-> 0] /\ termAt = [o \in Obs |-> NotSent]
    /\ inbox = <<>> /\ srvN = 0
    /\ handlerLog = [o \in Obs |-> <<>>] /\ readLog = [o \in Obs |-> <<>>]
    /\ ackLog = [o \in Obs |-> <<>>] /\ deregLog = [o \in Obs |-> <<>>]
    /\ regLog = [o \in Obs |-> NoPkt]
    /\ url = <<>>
    /\ parsed = NotParsed
    /\ mid_in \in MidInputs
    /\ mid_out = NoMid

\* gen_message_id(&mut message_id): the addition is a plain += on u16, so
\* on overflow it panics in a build with overflow checks (the dev and test
\* profiles) and wraps in a build without them (the release profile)
GenMessageId(overflow_checks) ==
    /\ mid_out = NoMid
    /\ mid_out' = IF overflow_checks /\ Overflows(mid_in)
                  THEN [kind |-> "panic", value |-> 0, message_id |-> mid_in]
                  ELSE [kind |-> "Ok", value |-> gen_message_id(mid_in),
                        message_id |-> gen_message_id(mid_in)]
    /\ UNCHANGED << url, parsed, mid_in, mainVars >>

NextMid == \E overflow_checks \in BOOLEAN : GenMessageId(overflow_checks)

SpecMid == InitMid /\ [][NextMid]_vars

\* ================================================================== claims

\* the session has been torn down: unobserve has returned and nothing was
\* called since, or the drop of the session is complete
Torn ==
    /\ ProcessAlive
    /\ mpc = "idle"
    /\ \/ curOp = "unobserve" /\ ret.op = "unobserve" /\ ret.kind = "Ok"
       \/ sess = "dropped"

\* C1: after unobserve returns or the drop of the session completes, every
\* observe worker of the session has terminated (and so calls no handler)
C1_TeardownStopsWorkers == Torn => \A o \in Obs : ~Running(o)

\* C2: a session has at most one live observe worker thread
C2_AtMostOneWorker == Cardinality({o \in Obs : Running(o)}) <= 1

\* C3: a call of unobserve (by the caller or by Drop) on a session whose
\* observe_sender is None sends no Terminate, starts no deregistration, joins
\* nothing, leaves the session's fields as they are and returns at once
C3_UnobserveIdempotent ==
    [][ ( /\ callN' = callN + 1
          /\ curOp' \in {"unobserve", "drop"}
          /\ observe_sender = 0 )
        => ( /\ observe_sender' = 0
             /\ observe_thread' = observe_thread
             /\ term' = term
             /\ deregLog' = deregLog
             /\ wpc' = wpc
             /\ nCtx' = nCtx
             /\ read_timeout' = read_timeout
             /\ mpc' = "idle"
             /\ ret'.kind = "Ok"
             /\ (curOp' = "unobserve" => sess' = sess) ) ]_vars

\* unobserve right after an unobserve that ended an observation
C3_Witness ==
    /\ mpc = "idle"
    /\ curOp = "unobserve" /\ prevOp = "unobserve"
    /\ ret.op = "unobserve" /\ ret.kind = "Ok"
    /\ \E o \in Obs : wpc[o] = "done" /\ Len(deregLog[o]) = 1

\* C4: when the packet received as the registration response has a status
\* other than Content, observe returns not-found at once: no handler call,
\* no further DTLS context, no worker, no stored handle
C4_ObserveNotFound ==
    [][ ( /\ mpc = "obs_recv"
          /\ mpc' # "obs_recv"
          /\ inbox # <<>>
          /\ Head(inbox).kind = "pkt"
          /\ Head(inbox).pkt.code # "Content" )
        => ( /\ ret'.op = "observe" /\ ret'.kind = "NotFound"
             /\ mpc' = "idle"
             /\ handlerLog' = handlerLog
             /\ nCtx' = nCtx
             /\ wpc' = wpc
             /\ observe_sender' = observe_sender
             /\ observe_thread' = observe_thread ) ]_vars

C4_Witness ==
    /\ mpc = "idle"
    /\ curOp = "observe"
    /\ ret.op = "observe" /\ ret.kind = "NotFound"
    /\ handlerLog[obsId] = <<>>
    /\ wpc[obsId] = "unborn"

\* C5: a synchronous receive (alone or as the last step of
\* get_with_timeout) whose read timed out returns would-block / timed-out
C5_TimeoutIsWouldBlock ==
    ( /\ mpc = "idle"
      /\ curOp \in {"receive", "get"}
      /\ ret.op = curOp
      /\ ret.cause = "timeout" )
    => ret.kind \in {"WouldBlock", "TimedOut"}

\* C6: no failure of new, send, receive or get_with_timeout ends in a panic
\* of the calling thread
C6_SyncFailuresAreErrors ==
    ret.op \in {"new", "send", "receive", "get"} => ret.kind # "panic"

\* C7: every acknowledgement the worker sent carries the message-id, token
\* and type of the notification it answers, and no options and no payload
C7_AckFidelity ==
    \A o \in Obs : \A i \in 1..Len(ackLog[o]) :
        LET n == ackLog[o][i][1]
            a == ackLog[o][i][2]
        IN  /\ a.mid = n.mid
            /\ a.token = n.token
            /\ a.type = n.type
            /\ a.observe = <<>> /\ a.path = ""
            /\ a.payload = <<>>

C7_Witness ==
    \E o \in Obs : /\ ackLog[o] # <<>>
                   /\ ackLog[o][1][1].mid # 0
                   /\ ackLog[o][1][1].token # <<>>
                   /\ ackLog[o][1][1].payload # <<>>

\* C8: once unobserve has returned or the session is dropped, every
\* observation that had a worker has handed exactly one deregister request
\* (Observe = Deregister, the observed path) to its channel, and no worker
\* outlives the session's own DTLS context
C8_DeregisterOnTeardown ==
    /\ ( /\ ProcessAlive /\ mpc = "idle"
         /\ curOp \in {"unobserve", "drop"} /\ ret.op = curOp )
       => \A o \in Obs : wpc[o] # "unborn" =>
            /\ Len(deregLog[o]) = 1
            /\ deregLog[o][1].pkt.observe = << ObserveOption_Deregister >>
            /\ deregLog[o][1].pkt.path = wpath[o]
    /\ (ProcessAlive /\ sess = "dropped") => \A o \in Obs : ~Running(o)

\* C9: the handler of an observation is called first with the registration
\* response, before its worker exists, then once per packet the worker
\* decoded, in the order read; the caller is never in the handler while the
\* worker runs
C9_HandlerSerial ==
    \A o \in Obs :
      /\ handlerLog[o] = (IF regLog[o] = NoPkt THEN <<>> ELSE << regLog[o] >>)
                            \o readLog[o]
      /\ wpc[o] # "unborn" => regLog[o] # NoPkt
      /\ wpc[o] = "unborn" => readLog[o] = <<>>
      /\ (mpc = "obs_handler" /\ obsId = o) => wpc[o] = "unborn"

C9_Witness ==
    \E o \in Obs : /\ Len(readLog[o]) = 2
                   /\ readLog[o][1] # readLog[o][2]
                   /\ Len(handlerLog[o]) = 3

\* C10: parse_coap_url accepts coap://host[:port][/path] with an IPv4
\* literal, a DNS name or a bracketed IPv6 literal as host, returns the host
\* without brackets and port 5683 when none is given; it fails with
\* invalid-input without a scheme, with an empty host, and with a port
\* above 65535
CoapScheme == <<"c", "o", "a", "p", ":", "/", "/">>
GoodHosts == { <<"1", "2", "7", ".", "0", ".", "0", ".", "1">>,
               <<"c", "o", "a", "p", ".", "m", "e">>,
               <<"[", ":", ":", "1", "]">>,
               <<"[", "b", "b", ":", ":", "7", "4", "]">> }
Unbracketed(h) == SelectSeq(h, LAMBDA c : c \notin {"[", "]"})
ExpectedPort(p) ==
    CASE p = <<>> -> 5683
      [] p = <<":">> -> 5683
      [] p = <<":", "0">> -> 0
      [] p = <<":", "5", "6", "8", "3">> -> 5683
      [] p = <<":", "6", "5", "5", "3", "5">> -> 65535
      [] OTHER -> -1
BadPorts == { <<":", "6", "5", "5", "3", "6">>,
              <<":", "9", "9", "9", "9", "9", "9">> }

C10_ParseCoapUrl ==
    parsed # NotParsed =>
      \A s \in UrlSchemes, h \in UrlHosts, p \in UrlPorts, q \in UrlPaths :
        url = s \o h \o p \o q =>
          /\ (s = CoapScheme /\ h \in GoodHosts /\ ExpectedPort(p) # -1)
               => /\ parsed.kind = "Ok"
                  /\ parsed.host = Unbracketed(h)
                  /\ parsed.port = ExpectedPort(p)
          /\ ( \/ s = <<>>
               \/ s = CoapScheme /\ h = <<>>
               \/ s = CoapScheme /\ h \in GoodHosts /\ p \in BadPorts )
               => parsed.kind = "InvalidInput"

C10_Witness ==
    /\ url = CoapScheme \o <<"[", ":", ":", "1", "]">> \o <<"/", "R">>
    /\ parsed.kind = "Ok"
    /\ parsed.host = <<":", ":", "1">>
    /\ parsed.port = 5683

\* the worker of observation o has taken Terminate from its channel: the
\* deregister request is what it hands to send_with_socket next
GotTerminate(o) == deregLog[o] # <<>>

\* C11: a worker's thread ends only after it has received Terminate: no
\* read timeout, read error, decode failure or failed send of an
\* acknowledgement ends it
C11_WorkerEndsOnlyOnTerminate ==
    \A o \in Obs : Ended(o) => GotTerminate(o)

\* C12: a worker that has received Terminate exits normally, whatever the
\* send of the deregister request and the draining read do, and so unobserve
\* and the drop of the session complete without a panic
C12_TerminateExitsNormally ==
    /\ \A o \in Obs : GotTerminate(o) => wpc[o] # "panicked"
    /\ (mpc = "idle" /\ curOp \in {"unobserve", "drop"} /\ ret.op = curOp)
         => ret.kind # "panic"

\* ------------------------------------------ specification: fair scheduling
\* every thread that can take its next step is scheduled: a worker whose
\* read can return, whose handler returns or whose write completes goes on,
\* and the caller's join returns once the worker's thread has ended.  The
\* server and the caller's choice of a next operation are not fair: both
\* may stay silent for ever.
Fairness ==
    /\ \A o \in Obs :
         /\ WF_vars(WorkerRead(o))
         /\ WF_vars(WorkerHandlerReturn(o))
         /\ WF_vars(\E w \in WriteResults : WorkerAck(o, w))
         /\ WF_vars(WorkerPoll(o))
         /\ WF_vars(\E w \in WriteResults : WorkerDeregister(o, w))
         /\ WF_vars(WorkerDrain(o))
    /\ WF_vars(UnobserveJoin)

SpecLive == Init /\ [][Next]_vars /\ Fairness

\* C13: once unobserve has sent Terminate to the worker of an
\* observation, that worker's thread eventually ends and the call eventually
\* leaves its join, whatever the server sends and whatever receive timeout
\* set_receive_timeout last put on the shared socket
C13_UnobserveReturns ==
    \A o \in Obs :
      (mpc = "unobs_join" /\ curOp = "unobserve" /\ observe_thread = o)
         ~> (Ended(o) /\ mpc # "unobs_join")

\* the caller's thread returns from a read on the session's context
MainReads ==
    \/ callN' = callN + 1 /\ curOp' = "receive"
    \/ mpc = "obs_recv" /\ mpc' # "obs_recv"

\* the worker of observation o returns from a read on its context
WorkerReads(o) == wpc[o] \in {"read", "drain"} /\ wpc'[o] # wpc[o]

\* C14: while the session's observation is active, a datagram the peer sent
\* to the worker's context is never taken from the socket by a read on the
\* session's context, and a datagram sent to the session's context is never
\* taken by the worker's read
C14_NoCrossConsumption ==
    [][ ( /\ sess = "live"
          /\ observe_thread # 0
          /\ Running(observe_thread)
          /\ inbox # <<>> )
        => ( /\ MainReads => Head(inbox).to # "worker"
             /\ WorkerReads(observe_thread) => Head(inbox).to # "session" ) ]_vars

\* the notifications of a sequence that carry a response envelope
WithEnvelope(log) ==
    SelectSeq(log, LAMBDA p : CoAPRequest_from_packet(p).response.some)

\* the notifications whose iteration is past its acknowledgement step: all
\* the worker read, but the last while its handler or its send is under way
PastAck(o) ==
    IF wpc[o] \in {"handler", "ack"}
    THEN SubSeq(readLog[o], 1, Len(readLog[o]) - 1)
    ELSE readLog[o]

\* C15: the acknowledgements a worker has handed to its channel are, in
\* order and one each, those of the notifications with a response envelope
\* whose handler call has returned; when the worker polls the termination
\* channel the acknowledgement of the iteration has been handed over
C15_AckOncePerEnvelope ==
    \A o \in Obs :
      [j \in 1..Len(ackLog[o]) |-> ackLog[o][j][1]] = WithEnvelope(PastAck(o))

C15_Witness ==
    \E o \in Obs : /\ wpc[o] = "poll"
                   /\ Len(readLog[o]) = 2
                   /\ ~CoAPRequest_from_packet(readLog[o][1]).response.some
                   /\ CoAPRequest_from_packet(readLog[o][2]).response.some
                   /\ Len(ackLog[o]) = 1

TerminateSent(o) == termAt[o] # NotSent

\* C17: from the moment unobserve has sent Terminate, the worker calls the
\* handler at most once more and hands over at most one more
\* acknowledgement; once it has taken Terminate, through the deregister
\* request and the draining read, it calls the handler no more and
\* acknowledges nothing
C17_AtMostOneAfterTerminate ==
    [][ \A o \in Obs :
          /\ TerminateSent(o)'
               => /\ Len(handlerLog'[o]) <= termAt'[o].handler + 1
                  /\ Len(ackLog'[o]) <= termAt'[o].ack + 1
          /\ wpc[o] \in {"dereg", "drain"}
               => /\ handlerLog'[o] = handlerLog[o]
                  /\ ackLog'[o] = ackLog[o] ]_vars

\* a notification arrived after Terminate was sent: it was handled and
\* acknowledged, then the worker deregistered and drained a packet
C17_Witness ==
    \E o \in Obs : /\ TerminateSent(o)
                   /\ Len(handlerLog[o]) = termAt[o].handler + 1
                   /\ Len(ackLog[o]) = termAt[o].ack + 1
                   /\ wpc[o] = "done"

\* C18: when a public operation has returned to the caller, the session's
\* termination sender is present exactly when its join handle is: neither
\* on a new session, both (of the same worker) after a successful observe,
\* neither after unobserve
C18_SenderIffHandle ==
    (sess = "live" /\ mpc = "idle" /\ ~panicked) =>
       /\ observe_sender = 0 <=> observe_thread = 0
       /\ ret.op = "new" => (observe_sender = 0 /\ observe_thread = 0)
       /\ (ret.op = "observe" /\ ret.kind = "Ok")
            => (observe_sender = obsId /\ observe_thread = obsId /\ obsId # 0)
       /\ ret.op = "unobserve" => (observe_sender = 0 /\ observe_thread = 0)

\* unobserve has returned after ending the observation a successful observe
\* had started
C18_Witness ==
    /\ sess = "live" /\ mpc = "idle" /\ ~panicked
    /\ curOp = "unobserve" /\ prevOp = "observe"
    /\ ret.op = "unobserve" /\ ret.kind = "Ok"
    /\ obsId # 0 /\ wpc[obsId] = "done"
    /\ observe_sender = 0 /\ observe_thread = 0

\* a step of the caller's thread inside observe
ObserveStep ==
    \/ callN' = callN + 1 /\ curOp' = "observe"
    \/ mpc \in {"obs_recv", "obs_handler"} /\ mpc' # mpc

\* C19: no step of an observe call that does not end in Ok changes the
\* stored sender or join handle, starts a worker or adds a DTLS context: so
\* when observe returns an error both fields are as before the call and the
\* call has spawned nothing
C19_ObserveErrorFrame ==
    [][ ( /\ ObserveStep
          /\ ~(mpc' = "idle" /\ ret'.kind = "Ok") )
        => ( /\ observe_sender' = observe_sender
             /\ observe_thread' = observe_thread
             /\ nCtx' = nCtx
             /\ \A o \in Obs : wpc[o] = "unborn" => wpc'[o] = "unborn" ) ]_vars

\* a second observe failed after its handler call, at the clone of the
\* socket or the construction of the connector: the first observation's
\* handles are still stored
C19_Witness ==
    /\ mpc = "idle" /\ ~panicked
    /\ ret.op = "observe" /\ ret.kind = "Other"
    /\ obsId = 2
    /\ Len(handlerLog[2]) = 1
    /\ wpc[2] = "unborn"
    /\ observe_sender = 1 /\ observe_thread = 1

====
